---- MODULE Spec2Model ----
(***************************************************************************)
(* frame_muxer (modules/ffmpeg/producer/muxer/frame_muxer.cpp): the        *)
(* segmented video and audio queues, the rotating audio cadence, the       *)
(* display mode and the output buffer, with push_video, push_audio and     *)
(* try_pop as the operations and video_ready, audio_ready and              *)
(* calc_nb_frames as the queries.                                          *)
(*                                                                         *)
(* A video unit (core::mutable_frame) is a record [id, seg, kind,          *)
(* audio_data]: id is its arrival number on the video stream, seg the      *)
(* number of video Flush markers pushed before it, kind tells a decoded    *)
(* frame ("frame") from the blank frame made for EmptyFiller ("empty"),    *)
(* audio_data is empty until try_pop fills it.  An audio sample is a       *)
(* record [id, seg, zero] alike; zero marks the silence samples of         *)
(* EmptyFiller.  id and seg are history tags: no operation of the muxer    *)
(* reads them.                                                             *)
(***************************************************************************)
EXTENDS Integers, Sequences, FiniteSets, TLC

VARIABLES
    video_streams_,         \* std::queue<std::queue<mutable_frame>>
    audio_streams_,         \* std::queue<audio_buffer>
    frame_buffer_,          \* std::queue<draw_frame>
    display_mode_,          \* display_mode
    audio_cadence_,         \* std::vector<int>
    format_audio_cadence,   \* format_desc_.audio_cadence (const)
    ret,                    \* the last call: operation, argument, outcome
    hist,                   \* history: counters and the log of pop_audio calls
    out                     \* history: the outputs try_pop has returned

vars == <<video_streams_, audio_streams_, frame_buffer_, display_mode_,
          audio_cadence_, format_audio_cadence, ret, hist, out>>

-----------------------------------------------------------------------------
(* Bounds of the model *)

\* longest base cadence
MaxCadenceLen == 2
\* largest sample count of one cadence position
MaxCadenceVal == 2
\* Flush markers pushed per stream
MaxFlush == 1
\* EmptyFiller markers pushed per stream
MaxEmpty == 1
\* video units pushed in all (specification Spec)
MaxFrames == 3
\* audio samples pushed in all (specification Spec)
MaxSamples == 4
\* frames filter_.poll_all() yields for one pushed frame, at most
MaxPoll == 2
\* frames the old filter yields while update_display_mode drains it, at most
MaxDelay == 1
\* samples of one pushed audio chunk, at most
MaxChunk == 2
\* video units pushed in all (specification SpecTicks)
MaxTickFrames == 10
\* audio samples pushed in all (specification SpecTicks)
MaxTickSamples == 10
\* units or samples pushed one by one next to the bulk pushes, and outputs
\* popped (specification SpecOverflow)
MaxExtra == 2

(* Program constants *)

\* frame_muxer.cpp:123  video_streams_.back().size() > 32
MaxVideoSegment == 32
\* frame_muxer.cpp:139  audio_streams_.back().size() > 32*audio_cadence_.front()
MaxAudioTicks == 32

\* frame_muxer.cpp:318  uint32_t: a number of 32 bits is kept as two halves of
\* 16 bits, [hi, lo] for hi * 2^16 + lo
Limb == 65536

-----------------------------------------------------------------------------
(* Sequences *)

Last(s) == s[Len(s)]
Front(s) == SubSeq(s, 1, Len(s) - 1)
ReplaceLast(s, x) == [s EXCEPT ![Len(s)] = x]
ReplaceHead(s, x) == [s EXCEPT ![1] = x]

RECURSIVE SeqSum(_)
SeqSum(s) == IF s = <<>> THEN 0 ELSE Head(s) + SeqSum(Tail(s))

\* all sequences over S of length 1..n
RECURSIVE SeqsUpTo(_, _)
SeqsUpTo(S, n) ==
    IF n = 0 THEN {}
    ELSE SeqsUpTo(S, n - 1) \cup [1..n -> S]

\* boost::range::rotate(rng, begin + (k-1)): element k becomes the first
rotate(rng, k) ==
    IF k > Len(rng) THEN rng
    ELSE SubSeq(rng, k, Len(rng)) \o SubSeq(rng, 1, k - 1)

-----------------------------------------------------------------------------
(* Types *)

DisplayModes == {"invalid", "simple", "interlace", "deinterlace",
                 "deinterlace_bob", "deinterlace_bob_reinterlace",
                 "duplicate", "half"}

FieldModes == {"progressive", "upper", "lower"}

Cadences == SeqsUpTo(1..MaxCadenceVal, MaxCadenceLen)

\* make_frame(...) / frame_factory_->create_frame(...)
VideoUnit(n, s, k) == [id |-> n, seg |-> s, kind |-> k, audio_data |-> <<>>]
AudioSample(n, s, z) == [id |-> n, seg |-> s, zero |-> z]

\* the muxer object with the history the operations extend
Self ==
    [video_streams |-> video_streams_,
     audio_streams |-> audio_streams_,
     frame_buffer  |-> frame_buffer_,
     display_mode  |-> display_mode_,
     audio_cadence |-> audio_cadence_,
     hist          |-> hist,
     res           |-> "none",
     result        |-> <<>>,
     trunc         |-> FALSE,
     depth         |-> 0]

NoHist ==
    [pushed_v |-> 0, pushed_a |-> 0,    \* units / samples appended so far
     flush_v  |-> 0, flush_a  |-> 0,    \* Flush markers pushed so far
     empty_v  |-> 0, empty_a  |-> 0,    \* EmptyFiller markers pushed so far
     dropped  |-> 0,                    \* front segment pairs dropped so far
     halted   |-> FALSE,                \* a CASPAR_VERIFY has failed
     selector |-> "none",               \* what the first decoded frame met
     pop_log  |-> <<>>]                 \* one entry per pop_audio call

-----------------------------------------------------------------------------
(* frame_muxer::impl::impl *)

Init ==
    /\ format_audio_cadence \in Cadences
    /\ video_streams_ = << <<>> >>
    /\ audio_streams_ = << <<>> >>
    /\ frame_buffer_ = <<>>
    /\ display_mode_ = "invalid"
    /\ audio_cadence_ = rotate(format_audio_cadence, Len(format_audio_cadence))
    /\ ret = [op |-> "impl", arg |-> "none", res |-> "none"]
    /\ hist = NoHist
    /\ out = <<>>

-----------------------------------------------------------------------------
(* update_display_mode *)

\* what update_display_mode reads of the AVFrame
FrameMetas == [mode : FieldModes, height : {480, 720}]

\* in_fps_, filter_str_ and format_desc_ (const members), and what
\* get_display_mode(...) answers for them: that function is defined outside
\* this file and may answer any display_mode
Envs == [in_fps : {25, 50},
         is_deinterlacing : BOOLEAN,
         field_mode : FieldModes,
         height : {486, 720},
         get_display_mode : DisplayModes]

\* mutation of detect_display_mode: lines 298-302, the fallback to simple,
\* are left out
detect_display_mode_no_fallback(frame, env) ==
    LET mode0 == frame.mode
        mode1 == IF mode0 = "progressive" /\ frame.height < 720 /\ env.in_fps < 50
                 THEN "upper" ELSE mode0
        mode  == IF env.is_deinterlacing THEN "progressive" ELSE mode1
        dm1   == env.get_display_mode
    IN  IF /\ (frame.height # 480 \/ env.height # 486)
           /\ dm1 = "simple"
           /\ mode # "progressive"
           /\ env.field_mode # "progressive"
           /\ frame.height # env.height
        THEN "deinterlace_bob_reinterlace" ELSE dm1

\* lines 270-302: the display mode update_display_mode settles on
detect_display_mode(frame, env) ==
    LET mode0 == frame.mode
        mode1 == IF mode0 = "progressive" /\ frame.height < 720 /\ env.in_fps < 50
                 THEN "upper" ELSE mode0
        mode  == IF env.is_deinterlacing THEN "progressive" ELSE mode1
        dm1   == env.get_display_mode
        dm2   == IF /\ (frame.height # 480 \/ env.height # 486)
                    /\ dm1 = "simple"
                    /\ mode # "progressive"
                    /\ env.field_mode # "progressive"
                    /\ frame.height # env.height
                 THEN "deinterlace_bob_reinterlace" ELSE dm1
    IN  IF dm2 = "invalid" THEN "simple" ELSE dm2

\* the display modes update_display_mode can settle on, over all frames and
\* all configurations
DetectableModes == {detect_display_mode(f, e) : f \in FrameMetas, e \in Envs}

\* video_streams_.back().push(...) n times
append_video(m, n, kind) ==
    [m EXCEPT
       !.video_streams = ReplaceLast(@, Last(@) \o
            [i \in 1..n |-> VideoUnit(m.hist.pushed_v + i, m.hist.flush_v, kind)]),
       !.hist.pushed_v = @ + n]

\* frame.detected is detect_display_mode for this frame and configuration;
\* frame.delayed is the number of frames the old filter yields in the loop
\* of lines 306-312 (0 when the filter string is unchanged)
update_display_mode(m, frame) ==
    append_video([m EXCEPT !.display_mode = frame.detected], frame.delayed, "frame")

-----------------------------------------------------------------------------
(* push_video, push_audio *)

\* mutation of video_overflow: the oldest segment is measured, not the current
video_overflow_front(m) == Len(Head(m.video_streams)) > MaxVideoSegment

\* mutation of video_overflow: the bound itself already overflows
video_overflow_at_bound(m) == Len(Last(m.video_streams)) >= MaxVideoSegment

\* line 123
video_overflow(m) == Len(Last(m.video_streams)) > MaxVideoSegment

\* mutation of audio_overflow: the cadence head is left out of the bound
audio_overflow_no_cadence(m) == Len(Last(m.audio_streams)) > MaxAudioTicks

\* line 139
audio_overflow(m) ==
    Len(Last(m.audio_streams)) > MaxAudioTicks * Head(m.audio_cadence)

\* line 106
push_video_flush(m) ==
    [m EXCEPT !.video_streams = Append(@, <<>>), !.hist.flush_v = @ + 1]

\* lines 109-111
push_video_empty(m) ==
    [append_video(m, 1, "empty") EXCEPT !.display_mode = "simple",
                                        !.hist.empty_v = @ + 1]

\* hist.selector, set by the first push of a decoded frame: "run" when it
\* called update_display_mode, "skipped" when it did not
first_frame(m, m1) ==
    IF m.hist.selector # "none" THEN m1
    ELSE [m1 EXCEPT !.hist.selector =
              IF m.display_mode = "invalid" THEN "run" ELSE "skipped"]

\* lines 115-120; frame.polled is the number of frames filter_.poll_all()
\* yields after filter_.push(video_frame)
push_video_frame(m, frame) ==
    LET m1 == IF m.display_mode = "invalid"
              THEN update_display_mode(m, frame) ELSE m
    IN  append_video(first_frame(m, m1), frame.polled, "frame")

\* mutation of push_video: a push that overflows leaves the muxer as it was
push_video_rollback(m, frame) ==
    IF frame.kind = "null" THEN [m EXCEPT !.res = "ok"]
    ELSE LET m1 == CASE frame.kind = "flush" -> push_video_flush(m)
                     [] frame.kind = "empty" -> push_video_empty(m)
                     [] OTHER                -> push_video_frame(m, frame)
         IN  IF video_overflow(m1) THEN [m EXCEPT !.res = "Overflow"]
             ELSE [m1 EXCEPT !.res = "ok"]

\* lines 100-125
push_video(m, frame) ==
    IF frame.kind = "null" THEN [m EXCEPT !.res = "ok"]
    ELSE LET m1 == CASE frame.kind = "flush" -> push_video_flush(m)
                     [] frame.kind = "empty" -> push_video_empty(m)
                     [] OTHER                -> push_video_frame(m, frame)
         IN  [m1 EXCEPT !.res = IF video_overflow(m1) THEN "Overflow" ELSE "ok"]

\* boost::range::push_back(audio_streams_.back(), ...) of n samples
append_audio(m, n, zero) ==
    [m EXCEPT
       !.audio_streams = ReplaceLast(@, Last(@) \o
            [i \in 1..n |-> AudioSample(m.hist.pushed_a + i, m.hist.flush_a, zero)]),
       !.hist.pushed_a = @ + n]

\* line 133
push_audio_flush(m) ==
    [m EXCEPT !.audio_streams = Append(@, <<>>), !.hist.flush_a = @ + 1]

\* mutation of push_audio_empty: the silence is as long as the last cadence
\* value, not the head
push_audio_empty_last(m) ==
    [append_audio(m, Last(m.audio_cadence), TRUE) EXCEPT !.hist.empty_a = @ + 1]

\* line 135
push_audio_empty(m) ==
    [append_audio(m, Head(m.audio_cadence), TRUE) EXCEPT !.hist.empty_a = @ + 1]

\* line 137; audio.size is the number of samples of the chunk
push_audio_chunk(m, audio) == append_audio(m, audio.size, FALSE)

push_audio(m, audio) ==
    IF audio.kind = "null" THEN [m EXCEPT !.res = "ok"]
    ELSE LET m1 == CASE audio.kind = "flush" -> push_audio_flush(m)
                     [] audio.kind = "empty" -> push_audio_empty(m)
                     [] OTHER                -> push_audio_chunk(m, audio)
         IN  [m1 EXCEPT !.res = IF audio_overflow(m1) THEN "Overflow" ELSE "ok"]

-----------------------------------------------------------------------------
(* video_ready2, audio_ready2, pop_video, pop_audio *)

\* mutation of video_ready2: one unit is enough under every display mode
video_ready2_one(m) == Len(Head(m.video_streams)) >= 1

\* lines 153-164
video_ready2(m) ==
    IF m.display_mode \in {"deinterlace_bob_reinterlace", "interlace", "half"}
    THEN Len(Head(m.video_streams)) >= 2
    ELSE Len(Head(m.video_streams)) >= 1

audio_ready2(m) ==
    IF m.display_mode = "duplicate"
    THEN Len(Head(m.audio_streams)) \div 2 >= Head(m.audio_cadence)
    ELSE Len(Head(m.audio_streams)) >= Head(m.audio_cadence)

\* mutation of video_ready: the segment count of the audio stream is not read
video_ready_alone(m) ==
    Len(m.video_streams) > 1 \/ video_ready2(m)

\* lines 143-146
video_ready(m) ==
    \/ Len(m.video_streams) > 1
    \/ (Len(m.video_streams) >= Len(m.audio_streams) /\ video_ready2(m))

\* lines 148-151
audio_ready(m) ==
    \/ Len(m.audio_streams) > 1
    \/ (Len(m.audio_streams) >= Len(m.video_streams) /\ audio_ready2(m))

\* the call stops here: a failed CASPAR_VERIFY, or front() of an empty queue.
\* What the build does next (abort, or run on with iterators past the end)
\* is not defined by this file; the object is not used again.
halt(m, why) == [m EXCEPT !.res = why, !.hist.halted = TRUE]

\* [frame, m]: the unit taken and the muxer after the call
pop_video(m) ==
    IF Head(m.video_streams) = <<>>
    THEN [frame |-> VideoUnit(0, 0, "undefined"), m |-> halt(m, "undefined")]
    ELSE [frame |-> Head(Head(m.video_streams)),
          m     |-> [m EXCEPT !.video_streams = ReplaceHead(@, Tail(Head(@)))]]

\* line 253
pop_audio_verify(m) == Len(Head(m.audio_streams)) >= Head(m.audio_cadence)

\* mutation of pop_audio: line 261, the rotation of the cadence, is left out
pop_audio_no_rotate(m) ==
    IF ~pop_audio_verify(m)
    THEN [samples |-> <<>>, m |-> halt(m, "verify_failed")]
    ELSE LET front == Head(m.audio_streams)
             n     == Head(m.audio_cadence)
             rest  == SubSeq(front, n + 1, Len(front))
         IN  [samples |-> SubSeq(front, 1, n),
              m |-> [m EXCEPT
                       !.audio_streams = ReplaceHead(@, rest),
                       !.hist.pop_log  = Append(@, [cadence |-> m.audio_cadence,
                                                    removed |-> Len(front) - Len(rest)])]]

\* [samples, m]: the chunk taken and the muxer after the call
pop_audio(m) ==
    IF ~pop_audio_verify(m)
    THEN [samples |-> <<>>, m |-> halt(m, "verify_failed")]
    ELSE LET front == Head(m.audio_streams)
             n     == Head(m.audio_cadence)
             rest  == SubSeq(front, n + 1, Len(front))
         IN  [samples |-> SubSeq(front, 1, n),
              m |-> [m EXCEPT
                       !.audio_streams = ReplaceHead(@, rest),
                       !.audio_cadence = rotate(@, 2),
                       !.hist.pop_log  = Append(@, [cadence |-> m.audio_cadence,
                                                    removed |-> Len(front) - Len(rest)])]]

-----------------------------------------------------------------------------
(* try_pop *)

\* core::draw_frame(std::move(frame1))
draw_frame(frame1) == [kind |-> "frame", frames |-> <<frame1>>]

\* core::draw_frame::interlace(frame1, frame2, format_desc_.field_mode)
draw_frame_interlace(frame1, frame2) ==
    [kind |-> "interlace", frames |-> <<frame1, frame2>>]

\* mutation of at_truncation: the readiness test is left out
at_truncation_always(m) ==
    Len(m.video_streams) > 1 /\ Len(m.audio_streams) > 1

\* line 186
at_truncation(m) ==
    /\ Len(m.video_streams) > 1
    /\ Len(m.audio_streams) > 1
    /\ (~video_ready2(m) \/ ~audio_ready2(m))

\* mutation of truncate: the cadence moves on with the dropped segments
truncate_rotating(m) ==
    [m EXCEPT !.video_streams = Tail(@),
              !.audio_streams = Tail(@),
              !.audio_cadence = rotate(@, 2),
              !.trunc = TRUE,
              !.hist.dropped = @ + 1]

\* mutation of truncate: line 192, audio_streams_.pop(), is left out
truncate_video_only(m) ==
    [m EXCEPT !.video_streams = Tail(@),
              !.trunc = TRUE,
              !.hist.dropped = @ + 1]

\* lines 191-192
truncate(m) ==
    [m EXCEPT !.video_streams = Tail(@),
              !.audio_streams = Tail(@),
              !.trunc = TRUE,
              !.hist.dropped = @ + 1]

\* line 195
not_ready(m) ==
    ~video_ready2(m) \/ ~audio_ready2(m) \/ m.display_mode = "invalid"

\* lines 221-229
assemble_duplicate(m, frame1) ==
    LET a2 == pop_audio(m)
    IN  IF a2.m.hist.halted THEN a2.m
        ELSE LET frame == draw_frame([frame1 EXCEPT !.audio_data = @ \o a2.samples])
             IN  [a2.m EXCEPT !.frame_buffer = Append(Append(@, frame), frame)]

\* mutation of assemble_interlace: the two fields are combined the other way
assemble_interlace_swapped(m, frame1) ==
    LET v2 == pop_video(m)
    IN  IF v2.m.hist.halted THEN v2.m
        ELSE [v2.m EXCEPT !.frame_buffer =
                  Append(@, draw_frame_interlace(v2.frame, frame1))]

\* lines 210-220
assemble_interlace(m, frame1) ==
    LET v2 == pop_video(m)
    IN  IF v2.m.hist.halted THEN v2.m
        ELSE [v2.m EXCEPT !.frame_buffer =
                  Append(@, draw_frame_interlace(frame1, v2.frame))]

\* mutation of assemble_half: the second unit is emitted, the first thrown away
assemble_half_second(m, frame1) ==
    LET v2 == pop_video(m)
    IN  IF v2.m.hist.halted THEN v2.m
        ELSE [v2.m EXCEPT !.frame_buffer =
                  Append(@, draw_frame([v2.frame EXCEPT !.audio_data = frame1.audio_data]))]

\* lines 230-236
assemble_half(m, frame1) ==
    LET v2 == pop_video(m)
    IN  IF v2.m.hist.halted THEN v2.m
        ELSE [v2.m EXCEPT !.frame_buffer = Append(@, draw_frame(frame1))]

\* lines 203-209
assemble_simple(m, frame1) ==
    [m EXCEPT !.frame_buffer = Append(@, draw_frame(frame1))]

\* lines 198-239
assemble(m) ==
    LET v1 == pop_video(m)
        a1 == pop_audio(v1.m)
        frame1 == [v1.frame EXCEPT !.audio_data = a1.samples]
        dm == m.display_mode
    IN  IF v1.m.hist.halted THEN v1.m
        ELSE IF a1.m.hist.halted THEN a1.m
        ELSE CASE dm \in {"simple", "deinterlace_bob", "deinterlace"} ->
                    assemble_simple(a1.m, frame1)
               [] dm \in {"interlace", "deinterlace_bob_reinterlace"} ->
                    assemble_interlace(a1.m, frame1)
               [] dm = "duplicate" ->
                    assemble_duplicate(a1.m, frame1)
               [] dm = "half" ->
                    assemble_half(a1.m, frame1)
               [] OTHER ->
                    [a1.m EXCEPT !.res = "invalid_operation"]

\* m.depth counts the calls of try_pop this call makes, itself included
RECURSIVE try_pop(_)
try_pop(m0) ==
    LET m == [m0 EXCEPT !.depth = @ + 1]
    IN  IF m.frame_buffer # <<>>
        THEN [m EXCEPT !.result = <<Head(m.frame_buffer)>>,
                       !.frame_buffer = Tail(@),
                       !.res = "true"]
        ELSE LET m1 == IF at_truncation(m) THEN truncate(m) ELSE m
             IN  IF not_ready(m1) THEN [m1 EXCEPT !.res = "false"]
                 ELSE LET m2 == assemble(m1)
                      IN  IF m2.res # "none" THEN m2 ELSE try_pop(m2)

-----------------------------------------------------------------------------
(* calc_nb_frames *)

\* uint64_t arithmetic on [hi, lo]: lo stays below 2^16, hi takes what is
\* above (the values here stay far below 64 bits)
times2(n) == [hi |-> 2 * n.hi + (2 * n.lo) \div Limb, lo |-> (2 * n.lo) % Limb]
div2(n) == [hi |-> n.hi \div 2, lo |-> (n.hi % 2) * (Limb \div 2) + n.lo \div 2]

\* line 337: static_cast<uint32_t>
to_uint32(n) == [hi |-> n.hi % Limb, lo |-> n.lo]

\* lines 320-335, before the cast; is_double_rate is filter_.is_double_rate()
nb_frames2(m, is_double_rate, nb_frames) ==
    LET n1 == IF is_double_rate THEN times2(nb_frames) ELSE nb_frames
    IN  CASE m.display_mode \in {"deinterlace_bob_reinterlace", "interlace", "half"} ->
                div2(n1)
          [] m.display_mode = "duplicate" ->
                times2(n1)
          [] OTHER ->
                n1

\* lines 318-338
calc_nb_frames(m, is_double_rate, nb_frames) ==
    to_uint32(nb_frames2(m, is_double_rate, nb_frames))

-----------------------------------------------------------------------------------------------------------------------------------------------------------------------------------------------------------------------------
(* The calls as actions *)

\* the muxer after a call, and what the call returned
Commit(m, op, arg) ==
    /\ video_streams_' = m.video_streams
    /\ audio_streams_' = m.audio_streams
    /\ frame_buffer_' = m.frame_buffer
    /\ display_mode_' = m.display_mode
    /\ audio_cadence_' = m.audio_cadence
    /\ hist' = m.hist
    /\ ret' = [op |-> op, arg |-> arg, res |-> m.res]
    /\ out' = IF op = "try_pop" /\ m.res = "true" THEN out \o m.result ELSE out
    /\ UNCHANGED format_audio_cadence

NoFrame == [kind |-> "null", polled |-> 0, detected |-> "invalid", delayed |-> 0]
NoAudio == [kind |-> "null", size |-> 0]

\* push_video(nullptr)
PushVideoNull ==
    /\ ~hist.halted
    /\ Commit(push_video(Self, NoFrame), "push_video", "null")

\* push_video(flush_video())
PushVideoFlush ==
    /\ ~hist.halted
    /\ hist.flush_v < MaxFlush
    /\ Commit(push_video(Self, [NoFrame EXCEPT !.kind = "flush"]), "push_video", "flush")

\* push_video(empty_video()); cap bounds the units pushed in all
PushVideoEmptyIn(cap) ==
    /\ ~hist.halted
    /\ hist.empty_v < MaxEmpty
    /\ hist.pushed_v + 1 <= cap
    /\ Commit(push_video(Self, [NoFrame EXCEPT !.kind = "empty"]), "push_video", "empty")

\* push_video of a decoded frame: the filter yields a number of frames in
\* polls, the drained old filter a number in delays, update_display_mode
\* settles on a mode in modes; cap bounds the units pushed in all
PushVideoFrameIn(polls, delays, modes, cap) ==
    /\ ~hist.halted
    /\ \E polled \in polls, detected \in modes, delayed \in delays :
          /\ hist.pushed_v + polled + delayed <= cap
          \* neither is read unless update_display_mode runs
          /\ display_mode_ # "invalid" => (delayed = 0 /\ detected = display_mode_)
          /\ Commit(push_video(Self, [kind |-> "frame", polled |-> polled,
                                      detected |-> detected, delayed |-> delayed]),
                    "push_video", "frame")

\* push_audio(nullptr)
PushAudioNull ==
    /\ ~hist.halted
    /\ Commit(push_audio(Self, NoAudio), "push_audio", "null")

\* push_audio(flush_audio())
PushAudioFlush ==
    /\ ~hist.halted
    /\ hist.flush_a < MaxFlush
    /\ Commit(push_audio(Self, [NoAudio EXCEPT !.kind = "flush"]), "push_audio", "flush")

\* push_audio(empty_audio()); cap bounds the samples pushed in all
PushAudioEmptyIn(cap) ==
    /\ ~hist.halted
    /\ hist.empty_a < MaxEmpty
    /\ hist.pushed_a + Head(audio_cadence_) <= cap
    /\ Commit(push_audio(Self, [NoAudio EXCEPT !.kind = "empty"]), "push_audio", "empty")

\* push_audio of a decoded chunk with a number of samples in sizes; cap
\* bounds the samples pushed in all
PushAudioChunkIn(sizes, cap) ==
    /\ ~hist.halted
    /\ \E size \in sizes :
          /\ hist.pushed_a + size <= cap
          /\ Commit(push_audio(Self, [kind |-> "chunk", size |-> size]),
                    "push_audio", "chunk")

TryPop ==
    /\ ~hist.halted
    /\ \E m \in {try_pop(Self)} : Commit(m, "try_pop", "none")

\* the answer of a bool query
Bool(b) == IF b THEN "true" ELSE "false"

\* video_ready() const
VideoReady ==
    /\ ~hist.halted
    /\ Commit([Self EXCEPT !.res = Bool(video_ready(Self))], "video_ready", "none")

\* audio_ready() const
AudioReady ==
    /\ ~hist.halted
    /\ Commit([Self EXCEPT !.res = Bool(audio_ready(Self))], "audio_ready", "none")

\* the frame counts asked about: the ends of the 32-bit range and the
\* neighbours of 2^30 and 2^31
NbFrames ==
    [hi : {0, 1, Limb \div 4 - 1, Limb \div 4, Limb \div 2 - 1, Limb \div 2, Limb - 1},
     lo : {0, 1, Limb \div 2, Limb - 1}]

\* calc_nb_frames(nb_frames) const; what filter_.is_double_rate() answers
\* lies with the filter, outside this file
CalcNbFrames ==
    /\ ~hist.halted
    /\ \E nb_frames \in NbFrames, is_double_rate \in BOOLEAN :
          /\ ret' = [op  |-> "calc_nb_frames",
                     arg |-> [nb_frames |-> nb_frames, is_double_rate |-> is_double_rate],
                     res |-> calc_nb_frames(Self, is_double_rate, nb_frames)]
          /\ UNCHANGED <<video_streams_, audio_streams_, frame_buffer_, display_mode_,
                         audio_cadence_, format_audio_cadence, hist, out>>

-----------------------------------------------------------------------------
(* Spec: every call, in any order, on small streams *)

PushVideoEmpty == PushVideoEmptyIn(MaxFrames)
PushVideoFrame == PushVideoFrameIn(0..MaxPoll, 0..MaxDelay, DetectableModes, MaxFrames)
PushAudioEmpty == PushAudioEmptyIn(MaxSamples)
PushAudioChunk == PushAudioChunkIn(1..MaxChunk, MaxSamples)

Next ==
    \/ PushVideoNull
    \/ PushVideoFlush
    \/ PushVideoEmpty
    \/ PushVideoFrame
    \/ PushAudioNull
    \/ PushAudioFlush
    \/ PushAudioEmpty
    \/ PushAudioChunk
    \/ TryPop

Spec == Init /\ [][Next]_vars

-----------------------------------------------------------------------------
(* SpecTicks: decoded frames and chunks pushed into one segment, and popped *)

TickVideoFrame == PushVideoFrameIn(0..MaxPoll, 0..MaxDelay, DetectableModes, MaxTickFrames)
TickAudioChunk == PushAudioChunkIn(1..MaxChunk, MaxTickSamples)

NextTicks ==
    \/ TickVideoFrame
    \/ TickAudioChunk
    \/ TryPop

SpecTicks == Init /\ [][NextTicks]_vars

-----------------------------------------------------------------------------
(* SpecOverflow: segments filled up to their bounds and beyond.  Data comes *)
(* in bulks of half a video segment bound (a full audio tick bound), next  *)
(* to at most MaxExtra single units after each bulk; at most MaxExtra      *)
(* outputs are popped.                                                     *)

BulkFrames == MaxVideoSegment \div 2
BulkSamples == MaxAudioTicks

\* the cadences whose head changes from one pop_audio to the next
InitOverflow ==
    /\ Init
    /\ Len(format_audio_cadence) = 2
    /\ format_audio_cadence[1] # format_audio_cadence[2]

BulkVideoFrame ==
    \E polled \in {1, BulkFrames} :
       /\ (hist.pushed_v + polled) % BulkFrames <= MaxExtra
       /\ PushVideoFrameIn({polled}, {0}, {"simple", "interlace"},
                           2 * BulkFrames + MaxExtra)

BulkVideoEmpty ==
    /\ (hist.pushed_v + 1) % BulkFrames <= MaxExtra
    /\ PushVideoEmptyIn(2 * BulkFrames + MaxExtra)

BulkAudioChunk ==
    \E size \in {1, BulkSamples} :
       /\ (hist.pushed_a + size) % BulkSamples <= MaxExtra
       /\ PushAudioChunkIn({size}, 2 * BulkSamples + MaxExtra)

BulkAudioEmpty ==
    /\ (hist.pushed_a + Head(audio_cadence_)) % BulkSamples <= MaxExtra
    /\ PushAudioEmptyIn(2 * BulkSamples + MaxExtra)

BulkTryPop ==
    /\ Len(out) < MaxExtra
    /\ TryPop

NextOverflow ==
    \/ PushVideoNull
    \/ PushAudioNull
    \/ BulkVideoFrame
    \/ BulkVideoEmpty
    \/ PushVideoFlush
    \/ BulkAudioChunk
    \/ BulkAudioEmpty
    \/ PushAudioFlush
    \/ BulkTryPop

SpecOverflow == InitOverflow /\ [][NextOverflow]_vars

-----------------------------------------------------------------------------
(* SpecFlush: segments closed by Flush markers, under a caller that keeps   *)
(* polling try_pop (the renderer's loop): a try_pop that can change the     *)
(* state is not put off forever.                                            *)

\* each pushed frame comes out of the filter as one unit
FlushVideoFrame == PushVideoFrameIn({1}, {0}, DetectableModes, MaxFrames)

NextFlush ==
    \/ PushVideoFlush
    \/ FlushVideoFrame
    \/ PushAudioFlush
    \/ PushAudioChunk
    \/ TryPop

SpecFlush == InitOverflow /\ [][NextFlush]_vars /\ WF_vars(TryPop)

-----------------------------------------------------------------------------
(* SpecReady: the readiness queries next to pushes, Flush markers and pops  *)

NextReady ==
    \/ PushVideoFlush
    \/ FlushVideoFrame
    \/ PushAudioFlush
    \/ PushAudioChunk
    \/ TryPop
    \/ VideoReady
    \/ AudioReady

SpecReady == Init /\ [][NextReady]_vars

-----------------------------------------------------------------------------
(* SpecCalc: calc_nb_frames asked under every display mode the muxer can be *)
(* in                                                                       *)

NextCalc ==
    \/ FlushVideoFrame
    \/ PushVideoEmpty
    \/ CalcNbFrames

SpecCalc == Init /\ [][NextCalc]_vars

-----------------------------------------------------------------------------
(* Claims *)

IsSuffix(a, b) ==
    Len(a) <= Len(b) /\ a = SubSeq(b, Len(b) - Len(a) + 1, Len(b))

\* C1: both streams always hold at least one segment; a step that removes
\* a segment is a try_pop that removes exactly the front video segment and
\* the front audio segment together (what stays is what was behind them),
\* taken when both streams held more than one segment and the front video
\* or the front audio segment was not ready.
C1_SegmentsKept ==
    /\ [](Len(video_streams_) >= 1 /\ Len(audio_streams_) >= 1)
    /\ [][ (Len(video_streams_') < Len(video_streams_)
              \/ Len(audio_streams_') < Len(audio_streams_))
           => /\ ret'.op = "try_pop"
              /\ Len(video_streams_') = Len(video_streams_) - 1
              /\ Len(audio_streams_') = Len(audio_streams_) - 1
              /\ \A j \in 1..Len(video_streams_') :
                    IsSuffix(video_streams_'[j], video_streams_[j + 1])
              /\ \A j \in 1..Len(audio_streams_') :
                    IsSuffix(audio_streams_'[j], audio_streams_[j + 1])
              /\ Len(video_streams_) > 1
              /\ Len(audio_streams_) > 1
              /\ (~video_ready2(Self) \/ ~audio_ready2(Self)) ]_vars

\* a front segment pair has been dropped while it still held data
C1_Witness ==
    /\ hist.dropped > 0
    /\ ret.op = "try_pop"
    /\ Len(video_streams_) = 1
    /\ Len(audio_streams_) = 1
    /\ hist.pushed_v > 0


VideoBound == MaxVideoSegment
AudioBound(cadence) == MaxAudioTicks * Head(cadence)

\* C2: a push_video(Flush) adds exactly one segment to the video stream and
\* a push_audio(Flush) exactly one to the audio stream: the new segment is
\* empty and at the back, the segments that were there keep their contents,
\* the other stream, the cadence, the display mode and the output buffer
\* are unchanged, and the push returns without Overflow.
C2_FlushAddsSegment ==
    [][ /\ (ret'.op = "push_video" /\ ret'.arg = "flush")
           => /\ video_streams_' = Append(video_streams_, <<>>)
              /\ audio_streams_' = audio_streams_
              /\ audio_cadence_' = audio_cadence_
              /\ display_mode_' = display_mode_
              /\ frame_buffer_' = frame_buffer_
              /\ ret'.res = "ok"
        /\ (ret'.op = "push_audio" /\ ret'.arg = "flush")
           => /\ audio_streams_' = Append(audio_streams_, <<>>)
              /\ video_streams_' = video_streams_
              /\ audio_cadence_' = audio_cadence_
              /\ display_mode_' = display_mode_
              /\ frame_buffer_' = frame_buffer_
              /\ ret'.res = "ok" ]_vars

\* a Flush has just been pushed behind a video segment that is over its bound
C2_Witness ==
    /\ ret.op = "push_video" /\ ret.arg = "flush"
    /\ Len(video_streams_) = 2
    /\ Len(video_streams_[1]) > VideoBound
    /\ Last(video_streams_) = <<>>

\* C3: a push_video of a frame or of EmptyFiller ends in Overflow exactly
\* when the back video segment holds more than 32 units after the append; a
\* push_audio of a chunk or of EmptyFiller ends in Overflow exactly when the
\* back audio segment holds more than 32 times the cadence head of the time
\* of the push after the append.
C3_OverflowAtBackBound ==
    [][ /\ (ret'.op = "push_video" /\ ret'.arg \in {"frame", "empty"})
           => (ret'.res = "Overflow" <=> Len(Last(video_streams_')) > VideoBound)
        /\ (ret'.op = "push_audio" /\ ret'.arg \in {"chunk", "empty"})
           => (ret'.res = "Overflow"
                 <=> Len(Last(audio_streams_')) > AudioBound(audio_cadence_)) ]_vars

\* a video push has failed at one unit over the bound while the back audio
\* segment stands exactly at its bound
C3_Witness ==
    /\ ret.op = "push_video" /\ ret.arg \in {"frame", "empty"}
    /\ ret.res = "Overflow"
    /\ Len(Last(video_streams_)) = VideoBound + 1
    /\ Len(Last(audio_streams_)) = AudioBound(audio_cadence_)

\* C4, as claimed: after a push, Overflow was raised exactly when the front
\* segment of the pushed stream is over its bound.
C4_OverflowAtFrontBound ==
    /\ (ret.op = "push_video" /\ ret.arg # "null")
       => (ret.res = "Overflow" <=> Len(Head(video_streams_)) > VideoBound)
    /\ (ret.op = "push_audio" /\ ret.arg # "null")
       => (ret.res = "Overflow"
             <=> Len(Head(audio_streams_)) > AudioBound(audio_cadence_))

\* C4, amended: after a push of anything but a null pointer, Overflow was
\* raised exactly when the back segment of the pushed stream is over its
\* bound.
C4_OverflowAtBackBound ==
    /\ (ret.op = "push_video" /\ ret.arg # "null")
       => (ret.res = "Overflow" <=> Len(Last(video_streams_)) > VideoBound)
    /\ (ret.op = "push_audio" /\ ret.arg # "null")
       => (ret.res = "Overflow"
             <=> Len(Last(audio_streams_)) > AudioBound(audio_cadence_))

\* an audio push has succeeded into a new segment while the front audio
\* segment is over its bound
C4_Witness ==
    /\ ret.op = "push_audio" /\ ret.arg = "chunk" /\ ret.res = "ok"
    /\ Len(audio_streams_) = 2
    /\ Len(Head(audio_streams_)) > AudioBound(audio_cadence_)
    /\ Last(audio_streams_) # <<>>


\* the cadence after the i-th pop_audio call
CadenceAfter(i) ==
    IF i < Len(hist.pop_log) THEN hist.pop_log[i + 1].cadence ELSE audio_cadence_

\* C5: with a base cadence of k positions summing to S, any k consecutive
\* pop_audio calls, whatever rotation the cadence is at when they start,
\* remove S samples in all, each call the cadence head of its moment, and
\* leave the cadence at the rotation it had before the first of them.
C5_CadenceCycle ==
    LET k == Len(format_audio_cadence)
        S == SeqSum(format_audio_cadence)
    IN  /\ \A i \in 1..Len(hist.pop_log) :
              hist.pop_log[i].removed = Head(hist.pop_log[i].cadence)
        /\ \A i \in 1..(Len(hist.pop_log) - k + 1) :
              /\ SeqSum([j \in 1..k |-> hist.pop_log[i + j - 1].removed]) = S
              /\ CadenceAfter(i + k - 1) = hist.pop_log[i].cadence

\* pop_audio has run through more than a full cycle of a cadence whose
\* positions differ, so cycles have started at every rotation
C5_Witness ==
    /\ Len(format_audio_cadence) = MaxCadenceLen
    /\ format_audio_cadence[1] # format_audio_cadence[MaxCadenceLen]
    /\ Len(hist.pop_log) >= 2 * MaxCadenceLen

\* C6, as claimed: no pop_audio call of try_pop ever fails the check of
\* line 253.
C6_VerifyNeverFails == ret.res # "verify_failed"


\* every output assembled so far, returned or still buffered, oldest first
Outputs == out \o frame_buffer_

\* the last call was a try_pop that returned no output
Drained == ret.op = "try_pop" /\ ret.res # "true"

\* the cadence head of the n-th pop_audio call since construction
CadenceAt(n) ==
    LET initial == rotate(format_audio_cadence, Len(format_audio_cadence))
    IN  initial[((n - 1) % Len(initial)) + 1]

\* the samples the first n pop_audio calls take
RECURSIVE CadenceTotal(_)
CadenceTotal(n) == IF n = 0 THEN 0 ELSE CadenceTotal(n - 1) + CadenceAt(n)

\* the samples n..(n + len - 1) of the first audio segment, as pushed
Chunk(n, len) == [j \in 1..len |-> AudioSample(n + j - 1, 0, FALSE)]

\* the u-th unit of the first video segment, as pushed
Unit(u) == VideoUnit(u, 0, "frame")

\* C7, as claimed: in Duplicate mode, once N units and the samples of the
\* 2N cadence values of their ticks are pushed into one segment and try_pop
\* has been called until it returns nothing, 2N outputs have been returned
\* and no two of them carry the same audio.
C7_DuplicateDistinctAudio ==
    ( /\ display_mode_ = "duplicate"
      /\ hist.pushed_v >= 1
      /\ hist.pushed_a = CadenceTotal(2 * hist.pushed_v)
      /\ Drained )
    => /\ Len(out) = 2 * hist.pushed_v
       /\ \A i, j \in 1..Len(out) :
             i # j => out[i].frames[1].audio_data # out[j].frames[1].audio_data

\* C8: in Half mode output i is unit 2i-1 alone, carrying the i-th cadence
\* chunk; unit 2i is taken and thrown away, one pop_audio is made per
\* output; and once try_pop returns nothing while audio for a tick is left,
\* the 2N (or 2N+1) units pushed have given exactly N returned outputs.
C8_HalfKeepsFirstOfPair ==
    display_mode_ = "half" =>
       /\ \A i \in 1..Len(Outputs) :
             Outputs[i] = draw_frame([Unit(2 * i - 1) EXCEPT !.audio_data =
                              Chunk(CadenceTotal(i - 1) + 1, CadenceAt(i))])
       /\ Len(hist.pop_log) = Len(Outputs)
       /\ hist.pushed_v - Len(Head(video_streams_)) = 2 * Len(Outputs)
       /\ (Drained /\ audio_ready2(Self)) => Len(out) = hist.pushed_v \div 2

\* two Half outputs have been returned for four units, nothing is left
C8_Witness ==
    /\ display_mode_ = "half"
    /\ Drained
    /\ hist.pushed_v = 4
    /\ Len(out) = 2
    /\ format_audio_cadence[1] # format_audio_cadence[Len(format_audio_cadence)]

\* C9: in Interlace and DeinterlaceBobReinterlace mode output i is the
\* interlace composite of unit 2i-1, carrying the i-th cadence chunk, and
\* unit 2i, in this order; and once try_pop returns nothing while audio for
\* a tick is left, the 2N (or 2N+1) units pushed have given exactly N
\* returned outputs.
C9_InterlacePairsInOrder ==
    display_mode_ \in {"interlace", "deinterlace_bob_reinterlace"} =>
       /\ \A i \in 1..Len(Outputs) :
             Outputs[i] = draw_frame_interlace(
                             [Unit(2 * i - 1) EXCEPT !.audio_data =
                                 Chunk(CadenceTotal(i - 1) + 1, CadenceAt(i))],
                             Unit(2 * i))
       /\ Len(hist.pop_log) = Len(Outputs)
       /\ hist.pushed_v - Len(Head(video_streams_)) = 2 * Len(Outputs)
       /\ (Drained /\ audio_ready2(Self)) => Len(out) = hist.pushed_v \div 2

\* ten units have given five returned Interlace outputs
C9_Witness ==
    /\ display_mode_ = "interlace"
    /\ hist.pushed_v = 10
    /\ Len(out) = 5
    /\ out[5].frames[1].id = 9 /\ out[5].frames[2].id = 10

\* the arrival numbers of the units and of the samples an output carries
VideoIds(o) == {o.frames[i].id : i \in 1..Len(o.frames)}
AudioIds(o) ==
    UNION {{o.frames[i].audio_data[j].id : j \in 1..Len(o.frames[i].audio_data)} :
              i \in 1..Len(o.frames)}
\* the segments an output takes its units and its samples from
VideoSegs(o) == {o.frames[i].seg : i \in 1..Len(o.frames)}
AudioSegs(o) ==
    UNION {{o.frames[i].audio_data[j].seg : j \in 1..Len(o.frames[i].audio_data)} :
              i \in 1..Len(o.frames)}

StrictlyAscending(ids) == \A i, j \in 1..Len(ids) : i < j => ids[i] < ids[j]

\* C10: the units of an output, and the samples it carries, are in arrival
\* order; of two outputs the later holds later units and later samples
\* (or is the second copy of a Duplicate output); every output takes its
\* units and its samples from one segment, the same for video and audio,
\* and the segments of successive outputs never go back.
C10_OutputOrder ==
    /\ \A i \in 1..Len(Outputs) :
          LET o == Outputs[i]
          IN  /\ StrictlyAscending([k \in 1..Len(o.frames) |-> o.frames[k].id])
              /\ \A k \in 1..Len(o.frames) :
                    StrictlyAscending([j \in 1..Len(o.frames[k].audio_data) |->
                                          o.frames[k].audio_data[j].id])
              /\ Cardinality(VideoSegs(o) \cup AudioSegs(o)) = 1
    /\ \A i, j \in 1..Len(Outputs) :
          i < j =>
             LET a == Outputs[i]
                 b == Outputs[j]
             IN  /\ \/ a = b /\ j = i + 1 /\ display_mode_ \in {"duplicate", "simple"}
                    \/ /\ \A x \in VideoIds(a), y \in VideoIds(b) : x < y
                       /\ \A x \in AudioIds(a), y \in AudioIds(b) : x < y
                 /\ \A x \in VideoSegs(a), y \in VideoSegs(b) : x <= y

\* outputs of two segments have been returned, and data was truncated
C10_Witness ==
    /\ Len(out) >= 2
    /\ out[1].frames[1].seg = 0
    /\ out[Len(out)].frames[1].seg = 1
    /\ out[Len(out)].frames[1].id > out[1].frames[1].id + 1

\* the units one tick takes under the display mode, and the samples it takes
\* with the cadence as it stands
TickUnits ==
    IF display_mode_ \in {"deinterlace_bob_reinterlace", "interlace", "half"}
    THEN 2 ELSE 1
TickSamples ==
    IF display_mode_ = "duplicate"
    THEN Head(audio_cadence_) + Head(rotate(audio_cadence_, 2))
    ELSE Head(audio_cadence_)

\* both streams have been flushed while the front segments cannot give a tick
FlushedNotReady ==
    /\ Len(video_streams_) > 1
    /\ Len(audio_streams_) > 1
    /\ (~video_ready2(Self) \/ ~audio_ready2(Self))

\* ... and the segments behind them, opened by the s-th Flush, hold the units
\* and the samples of a tick
FlushedWithTick(s) ==
    /\ FlushedNotReady
    /\ display_mode_ # "invalid"
    /\ Len(video_streams_[2]) >= TickUnits
    /\ Len(audio_streams_[2]) >= TickSamples
    /\ video_streams_[2][1].seg = s
    /\ audio_streams_[2][1].seg = s

\* an output made of the segment the s-th Flush opened has been returned
EmittedFrom(s) == \E i \in 1..Len(out) : s \in VideoSegs(out[i])

\* the units and samples of the front segments
FrontVideoIds == {video_streams_[1][i].id : i \in 1..Len(video_streams_[1])}
FrontAudioIds == {audio_streams_[1][i].id : i \in 1..Len(audio_streams_[1])}

\* C11, as claimed: a try_pop called with an empty output buffer while both
\* streams hold more than one segment and the front video or the front audio
\* segment is not ready drops both front segments, and nothing of what they
\* held is ever put into an output; and once the segments behind them hold
\* the units and samples of a tick, repeated try_pop calls eventually return
\* an output made of that following segment.
C11_FlushUnblocks ==
    /\ [][ (ret'.op = "try_pop" /\ frame_buffer_ = <<>> /\ FlushedNotReady)
           => /\ Len(video_streams_') = Len(video_streams_) - 1
              /\ Len(audio_streams_') = Len(audio_streams_) - 1
              /\ hist'.dropped = hist.dropped + 1
              /\ \A i \in 1..Len(Outputs') :
                    /\ VideoIds(Outputs'[i]) \cap FrontVideoIds = {}
                    /\ AudioIds(Outputs'[i]) \cap FrontAudioIds = {} ]_vars
    /\ \A s \in 1..MaxFlush : FlushedWithTick(s) ~> EmittedFrom(s)

\* the samples audio_ready asks of the front segment, as section 4.4 puts it
ReadySamples ==
    IF display_mode_ = "duplicate"
    THEN 2 * Head(audio_cadence_) ELSE Head(audio_cadence_)

\* C12, as claimed: video_ready() answers true exactly when the video stream
\* holds more than one segment or its front segment holds the units of a
\* tick, audio_ready() exactly when the audio stream holds more than one
\* segment or its front segment holds the samples of a tick (twice the
\* cadence head under Duplicate); the other stream is not looked at.
C12_ReadyPerStream ==
    /\ ret.op = "video_ready"
       => (ret.res = "true"
             <=> \/ Len(video_streams_) > 1
                 \/ Len(Head(video_streams_)) >= TickUnits)
    /\ ret.op = "audio_ready"
       => (ret.res = "true"
             <=> \/ Len(audio_streams_) > 1
                 \/ Len(Head(audio_streams_)) >= ReadySamples)

\* C12, amended: with one segment only, a stream is ready when it holds at
\* least as many segments as the other stream and its front segment holds
\* the units (samples) of a tick; with more than one segment it is ready.
C12_ReadyUnlessBehind ==
    /\ ret.op = "video_ready"
       => (ret.res = "true"
             <=> \/ Len(video_streams_) > 1
                 \/ /\ Len(video_streams_) >= Len(audio_streams_)
                    /\ Len(Head(video_streams_)) >= TickUnits)
    /\ ret.op = "audio_ready"
       => (ret.res = "true"
             <=> \/ Len(audio_streams_) > 1
                 \/ /\ Len(audio_streams_) >= Len(video_streams_)
                    /\ Len(Head(audio_streams_)) >= ReadySamples)

\* video_ready() has answered false for a front segment that holds the units
\* of a tick, the audio stream being one Flush ahead
C12_Witness ==
    /\ ret.op = "video_ready" /\ ret.res = "false"
    /\ Len(video_streams_) = 1
    /\ Len(audio_streams_) = 2
    /\ display_mode_ = "interlace"
    /\ Len(Head(video_streams_)) >= TickUnits

\* a <= b for numbers kept as [hi, lo]
LessEq(a, b) == a.hi < b.hi \/ (a.hi = b.hi /\ a.lo <= b.lo)

\* the count section 4.5 describes: the input, doubled if the filter doubles
\* the rate, then halved or doubled by the display mode
Projected(is_double_rate, nb_frames) ==
    LET n1 == IF is_double_rate THEN times2(nb_frames) ELSE nb_frames
    IN  IF display_mode_ \in {"interlace", "deinterlace_bob_reinterlace", "half"}
        THEN div2(n1)
        ELSE IF display_mode_ = "duplicate" THEN times2(n1) ELSE n1

\* C13, as claimed: the answer of calc_nb_frames is the projected count, it
\* fits 32 bits, and no larger input of the 32-bit range gets a smaller
\* answer under the same display mode and double-rate flag.
C13_Monotonic ==
    ret.op = "calc_nb_frames" =>
       /\ ret.res = Projected(ret.arg.is_double_rate, ret.arg.nb_frames)
       /\ ret.res.hi < Limb /\ ret.res.lo < Limb
       /\ \A other \in NbFrames :
             LessEq(ret.arg.nb_frames, other)
                => LessEq(ret.res, calc_nb_frames(Self, ret.arg.is_double_rate, other))

\* C14: try_pop never takes the default branch of its switch; a video
\* segment that holds a unit means a display mode other than invalid; a
\* try_pop made while the display mode is invalid returns false; no step
\* takes the display mode from another value back to invalid; and every
\* push_video of a decoded frame, the selector's run included, ends with a
\* display mode other than invalid.
C14_NeverInvalid ==
    /\ [](ret.res # "invalid_operation")
    /\ []((\E i \in 1..Len(video_streams_) : video_streams_[i] # <<>>)
             => display_mode_ # "invalid")
    /\ []((ret.op = "try_pop" /\ display_mode_ = "invalid") => ret.res = "false")
    /\ [][display_mode_ # "invalid" => display_mode_' # "invalid"]_vars
    /\ [][(ret'.op = "push_video" /\ ret'.arg = "frame")
             => display_mode_' \in DisplayModes \ {"invalid"}]_vars

\* try_pop has returned false under the invalid display mode although the
\* front audio segment holds the samples of a tick
C14_Witness ==
    /\ display_mode_ = "invalid"
    /\ ret.op = "try_pop" /\ ret.res = "false"
    /\ hist.pushed_a > 0
    /\ audio_ready2(Self)

\* C15, as claimed: the first decoded frame pushed always has the selector
\* run, whatever markers came before it; no later push of a decoded frame
\* runs it again; once it has run the display mode stays what it computed,
\* but for an EmptyFiller, which sets simple; and a push_video of EmptyFiller
\* appends one blank unit to the back segment and sets the mode to simple.
C15_SelectorOnFirstFrame ==
    /\ [](hist.selector # "skipped")
    /\ [][(hist.selector # "none" /\ ret'.op = "push_video" /\ ret'.arg = "frame")
             => display_mode_ # "invalid"]_vars
    /\ [][(hist.selector = "run" /\ display_mode_' # display_mode_)
             => (ret'.op = "push_video" /\ ret'.arg = "empty")]_vars
    /\ [][(ret'.op = "push_video" /\ ret'.arg = "empty")
             => /\ display_mode_' = "simple"
                /\ video_streams_' =
                      ReplaceLast(video_streams_,
                                  Append(Last(video_streams_),
                                         VideoUnit(hist.pushed_v + 1, hist.flush_v, "empty")))]_vars

\* the muxer after the segment-boundary maintenance of try_pop
AfterMaintenance ==
    IF FlushedNotReady
    THEN [Self EXCEPT !.video_streams = Tail(@), !.audio_streams = Tail(@)]
    ELSE Self

\* a display mode is chosen and both front segments are ready, after the
\* maintenance
TickReady ==
    /\ video_ready2(AfterMaintenance)
    /\ audio_ready2(AfterMaintenance)
    /\ display_mode_ # "invalid"

\* C16, as claimed: a try_pop makes at most two calls of try_pop in all and
\* drops at most one pair of front segments; called with an empty output
\* buffer, a chosen display mode and both front segments ready after the
\* maintenance, it takes the units and the samples of one tick, puts one
\* output into the buffer (two under duplicate), calls itself once and
\* returns an output; called with an empty output buffer otherwise, it
\* returns false without calling itself.
C16_RecursesOnce ==
    [][ ret'.op = "try_pop" =>
          /\ try_pop(Self).depth <= 2
          /\ hist'.dropped <= hist.dropped + 1
          /\ (frame_buffer_ = <<>> /\ TickReady)
               => /\ try_pop(Self).depth = 2
                  /\ ret'.res = "true"
                  /\ Len(out') = Len(out) + 1
                  /\ Len(frame_buffer_') = IF display_mode_ = "duplicate" THEN 1 ELSE 0
                  /\ Len(Head(video_streams_')) =
                        Len(Head(AfterMaintenance.video_streams)) - TickUnits
                  /\ Len(Head(audio_streams_')) =
                        Len(Head(AfterMaintenance.audio_streams)) - TickSamples
          /\ (frame_buffer_ = <<>> /\ ~TickReady)
               => /\ try_pop(Self).depth = 1
                  /\ ret'.res = "false" ]_vars

C18_NothingToAssemble ==
    [][ ret'.op = "try_pop" =>
          /\ frame_buffer_ # <<>>
               => /\ ret'.res = "true"
                  /\ out' = Append(out, Head(frame_buffer_))
                  /\ frame_buffer_' = Tail(frame_buffer_)
                  /\ video_streams_' = video_streams_
                  /\ audio_streams_' = audio_streams_
                  /\ audio_cadence_' = audio_cadence_
                  /\ display_mode_' = display_mode_
          /\ ret'.res = "false"
               => /\ audio_cadence_' = audio_cadence_
                  /\ display_mode_' = display_mode_
                  /\ frame_buffer_' = frame_buffer_
                  /\ out' = out
                  /\ \/ /\ video_streams_' = video_streams_
                        /\ audio_streams_' = audio_streams_
                     \/ /\ video_streams_' = Tail(video_streams_)
                        /\ audio_streams_' = Tail(audio_streams_) ]_vars

\* the second output of a Duplicate tick has been returned from the buffer,
\* and before that a try_pop had dropped a pair of front segments
C18_Witness ==
    /\ ret.op = "try_pop" /\ ret.res = "true"
    /\ display_mode_ = "duplicate"
    /\ Len(out) = 2
    /\ out[1] = out[2]
    /\ frame_buffer_ = <<>>
    /\ hist.dropped > 0

\* C19: no pop_video call ever meets an empty front video segment; a try_pop
\* that takes a tick finds, after the maintenance, the front video segment
\* holding the one unit or the two units the tick takes under the display
\* mode, and takes just these.
C19_PopVideoFindsUnit ==
    /\ [](ret.res # "undefined")
    /\ [][(ret'.op = "try_pop" /\ Len(hist'.pop_log) > Len(hist.pop_log))
             => /\ Len(Head(AfterMaintenance.video_streams)) >= TickUnits
                /\ Head(video_streams_') =
                      SubSeq(Head(AfterMaintenance.video_streams), TickUnits + 1,
                             Len(Head(AfterMaintenance.video_streams)))]_vars

\* after an Interlace tick of two units an EmptyFiller has set the mode to
\* simple, a try_pop has dropped the front segments and has returned the
\* blank unit of the following segment as an output of its own
C19_Witness ==
    /\ ret.op = "try_pop" /\ ret.res = "true"
    /\ display_mode_ = "simple"
    /\ hist.dropped > 0
    /\ Len(out) = 2
    /\ out[1].kind = "interlace"
    /\ out[2].kind = "frame"
    /\ out[2].frames[1].kind = "empty"
    /\ out[2].frames[1].seg = 1

IsPrefix(a, b) == Len(a) <= Len(b) /\ a = SubSeq(b, 1, Len(a))

\* C20: a push of a frame, a chunk or an EmptyFiller appends to the back
\* segment whether it ends in Overflow or not (an EmptyFiller its blank
\* unit or its zero samples, the video one setting the mode to simple), and
\* touches no other segment; after a push that ended in Overflow the back
\* segment is over its bound; and a push into a back segment that is over
\* its bound already ends in Overflow again.
C20_OverflowNotRolledBack ==
    [][ /\ (ret'.op = "push_video" /\ ret'.arg \in {"frame", "empty"})
           => /\ Front(video_streams_') = Front(video_streams_)
              /\ Len(video_streams_') = Len(video_streams_)
              /\ IsPrefix(Last(video_streams_), Last(video_streams_'))
              /\ Len(Last(video_streams_')) - Len(Last(video_streams_))
                    = hist'.pushed_v - hist.pushed_v
              /\ ret'.arg = "empty"
                   => /\ Last(video_streams_') =
                            Append(Last(video_streams_),
                                   VideoUnit(hist.pushed_v + 1, hist.flush_v, "empty"))
                      /\ display_mode_' = "simple"
              /\ ret'.res = "Overflow" => Len(Last(video_streams_')) > VideoBound
              /\ Len(Last(video_streams_)) > VideoBound => ret'.res = "Overflow"
        /\ (ret'.op = "push_audio" /\ ret'.arg \in {"chunk", "empty"})
           => /\ Front(audio_streams_') = Front(audio_streams_)
              /\ Len(audio_streams_') = Len(audio_streams_)
              /\ IsPrefix(Last(audio_streams_), Last(audio_streams_'))
              /\ Len(Last(audio_streams_')) - Len(Last(audio_streams_))
                    = hist'.pushed_a - hist.pushed_a
              /\ ret'.arg = "empty"
                   => Len(Last(audio_streams_')) =
                         Len(Last(audio_streams_)) + Head(audio_cadence_)
              /\ ret'.arg = "chunk"
                   => Len(Last(audio_streams_')) > Len(Last(audio_streams_))
              /\ ret'.res = "Overflow"
                   => Len(Last(audio_streams_')) > AudioBound(audio_cadence_)
              /\ Len(Last(audio_streams_)) > AudioBound(audio_cadence_)
                   => ret'.res = "Overflow" ]_vars

\* an EmptyFiller has been pushed into a video segment that was over its
\* bound already: the push has failed as the one before it, the blank unit
\* is in the segment
C20_Witness ==
    /\ ret.op = "push_video" /\ ret.arg = "empty" /\ ret.res = "Overflow"
    /\ Len(Last(video_streams_)) = VideoBound + 2
    /\ Last(Last(video_streams_)).kind = "empty"
    /\ display_mode_ = "simple"

====
